---- MODULE Spec2Model ----
(***************************************************************************)
(* Model of app/database.py: the Database class of the Kalshi market       *)
(* selection UI.  The cache store (markets.sqlite: the markets table and   *)
(* the metadata entry last_refresh), the refresh policy of                 *)
(* _refresh_markets_if_needed, the paginated listing, the per-series       *)
(* enrichment and the table rebuild of _fetch_and_rebuild, the archive     *)
(* store written by archive(), the constructor's reading of the            *)
(* environment, and the dashboard's archive button.                        *)
(*                                                                         *)
(* The durable store is modelled by its committed content.  Python's       *)
(* sqlite3 module opens a transaction implicitly before INSERT/REPLACE     *)
(* only: DROP TABLE and CREATE TABLE run in autocommit mode and are        *)
(* durable as soon as they are executed, the row inserts and the           *)
(* timestamp write are held in the connection's open transaction until     *)
(* conn.commit().                                                          *)
(***************************************************************************)
EXTENDS Integers, Sequences, FiniteSets, TLC

\* ------------------------------------------------------------------ bounds
MaxPages == 2        \* listing pages the remote serves in one refresh
MaxTicks == 1        \* clock advances in one behaviour
MaxArchive == 2      \* rows of one archive() call

\* -------------------------------------------------------- program constants
FreshnessWindow == 86400   \* timedelta(days=1), in seconds

None == "None"             \* Python None / absent key
NoTime == -1               \* no last_refresh row in metadata
Unbound == "Unbound"       \* a local name that was never assigned
NoLevel == -1              \* debug_level of an instance not yet constructed

\* ------------------------------------------------------------ input domains
\* event_ticker values, as character sequences
EvA1 == <<"A", "-", "1">>
EvA  == <<"A">>
EvB1 == <<"B", "-", "1", "-", "x">>

\* Raw market records of the remote listing.  M1 and M2 share a ticker and
\* differ in every other field, M1 and M3 share a series, M3 has an
\* event_ticker with no separator and M2 one with two.
M1 == [ticker |-> "T1", event_ticker |-> EvA1, title |-> "one"]
M2 == [ticker |-> "T1", event_ticker |-> EvB1, title |-> "two"]
M3 == [ticker |-> "T2", event_ticker |-> EvA,  title |-> "three"]
Records == {M1, M2, M3}

RECURSIVE SeqsUpTo(_, _)
SeqsUpTo(S, n) ==
    IF n = 0 THEN {<<>>}
    ELSE LET shorter == SeqsUpTo(S, n - 1)
         IN  shorter \cup {Append(s, x) : s \in shorter, x \in S}

\* A listing page carries no record or one; longer listings span pages.
Batches == {<<>>} \cup {<<m>> : m \in Records}
CursorTokens == {"c1", "c2"}

\* ------------------------------------------------------------------- schema
required == {"ticker", "subtitle", "open_time", "close_time", "last_price"}

schema_fields ==
    {"ticker", "event_ticker", "market_type", "title", "subtitle",
     "yes_sub_title", "no_sub_title", "open_time", "close_time",
     "expected_expiration_time", "expiration_time", "latest_expiration_time",
     "settlement_timer_seconds", "status", "response_price_units",
     "notional_value", "tick_size", "yes_bid", "yes_ask", "no_bid", "no_ask",
     "last_price", "previous_yes_bid", "previous_yes_ask", "previous_price",
     "volume", "volume_24h", "liquidity", "open_interest", "result",
     "can_close_early", "expiration_value", "category", "risk_limit_cents",
     "strike_type", "custom_strike", "rules_primary", "rules_secondary"}

\* Column set of a markets table written by an earlier revision of the
\* program: it lacks open_time, close_time and last_price.
LegacyCols == {"ticker", "event_ticker", "title", "subtitle", "category",
               "rules_primary"}

\* ------------------------------------------------------------------- state
VARIABLES
    env,                \* the process environment once load_dotenv has run
    debug_level,        \* self.debug_level: 0 normal, 1 force, 2 offline
    now,                \* datetime.now(), seconds
    ticks,              \* clock advances so far
    \* committed content of markets.sqlite
    table_exists,       \* the markets table is in sqlite_master
    existing_cols,      \* its columns (PRAGMA table_info)
    markets,            \* its rows, in insertion order
    last_refresh,       \* metadata value of key last_refresh, or NoTime
    \* open transaction of the refreshing connection
    txn_rows,           \* rows inserted and not yet committed
    txn_meta,           \* last_refresh written and not yet committed
    next_row,           \* records of all_markets already passed to INSERT
    \* the caller inside fetch_markets / get_conn
    pc,                 \* position of the caller
    all_markets,        \* accumulated listing
    cursor_token,       \* continuation cursor for the next page request
    requests,           \* cursor parameter carried by each page request
    responses,          \* page responses received, in order
    series_todo,        \* series keys of series_set not yet iterated
    series_calls,       \* series keys requested so far, in order
    series_to_category, \* mapping filled by successful lookups
    count,              \* loop counter of the enrichment loop
    category_val,       \* local category_val, Unbound until first assigned
    pre,                \* store content when the current read began
    result,             \* outcome of the last read
    warned,             \* the offline "markets table empty" warning was logged
    \* archive store
    selected_markets,   \* rows of the archive table
    archive_arg,        \* argument of the last archive() call
    archive_ret,        \* its return value
    \* a second reader with its own connection
    rpc,                \* position of the reader
    robs                \* what its SELECT observed

storeVars  == <<table_exists, existing_cols, markets, last_refresh>>
txnVars    == <<txn_rows, txn_meta, next_row>>
listVars   == <<all_markets, cursor_token, requests, responses>>
enrichVars == <<series_todo, series_calls, series_to_category, count, category_val>>
archVars   == <<selected_markets, archive_arg, archive_ret>>
readerVars == <<rpc, robs>>
clockVars  == <<now, ticks>>
config     == <<env, debug_level>>
vars == <<config, clockVars, storeVars, txnVars, pc, listVars,
          enrichVars, pre, result, warned, archVars, readerVars>>

\* ----------------------------------------------------------------- helpers
Min(S) == CHOOSE x \in S : \A y \in S : x <= y

\* m.get('event_ticker', '').split('-', 1)[0]
SeriesKey(e) ==
    LET seps == {i \in 1..Len(e) : e[i] = "-"}
    IN  IF seps = {} THEN e ELSE SubSeq(e, 1, Min(seps) - 1)

\* {m.get('event_ticker', '').split('-', 1)[0] for m in all_markets}
series_set(ms) == {SeriesKey(ms[i].event_ticker) : i \in 1..Len(ms)}

\* The remote's series document: series A is published with a category,
\* the document of any other series carries no category key (None).
RemoteCategory(series) ==
    IF series = <<"A">> THEN "Politics" ELSE None

\* data.get('series', {}).get('category', '')
CategoryOfResponse(series) ==
    IF RemoteCategory(series) = None THEN "" ELSE RemoteCategory(series)

\* A lookup that falls back on the category of some other series.
MapGetAny(map, key) ==
    IF key \in DOMAIN map THEN map[key]
    ELSE IF DOMAIN map = {} THEN ""
    ELSE map[CHOOSE k \in DOMAIN map : TRUE]

\* series_to_category.get(base, '')
MapGet(map, key) == IF key \in DOMAIN map THEN map[key] ELSE ""

\* A row of the markets table built from an enriched record.
Row(m) ==
    [ticker |-> m.ticker, event_ticker |-> m.event_ticker,
     title |-> m.title, category |-> m.category]

Tickers(rows) == {rows[i].ticker : i \in 1..Len(rows)}

\* INSERT OR REPLACE in place of INSERT OR IGNORE: the later row wins.
InsertOrReplace(rows, r) ==
    IF r.ticker \in Tickers(rows)
    THEN [i \in 1..Len(rows) |->
             IF rows[i].ticker = r.ticker THEN r ELSE rows[i]]
    ELSE Append(rows, r)

\* INSERT OR IGNORE INTO markets: ticker is the primary key
InsertOrIgnore(rows, r) ==
    IF r.ticker \in Tickers(rows) THEN rows ELSE Append(rows, r)

\* ------------------------------------------------------------ refresh policy
schema_ok(te, cols) == te /\ required \subseteq cols

\* The window with an inclusive boundary.
stale_inclusive(lr, t) == lr = NoTime \/ t - lr >= FreshnessWindow

\* stale = (not last_refresh) or (now - last_refresh > timedelta(days=1))
stale(lr, t) == lr = NoTime \/ t - lr > FreshnessWindow

\* Variants of the policy with one condition lost.
must_refresh_no_schema(dl, te, cols, lr, t) ==
    IF dl = 2
    THEN ~schema_ok(te, cols)
    ELSE dl = 1 \/ ~te \/ stale(lr, t)

must_refresh_offline_stale(dl, te, cols, lr, t) ==
    IF dl = 2
    THEN ~schema_ok(te, cols) \/ stale(lr, t)
    ELSE dl = 1 \/ ~te \/ stale(lr, t) \/ ~schema_ok(te, cols)

must_refresh_no_force(dl, te, cols, lr, t) ==
    IF dl = 2
    THEN ~schema_ok(te, cols)
    ELSE ~te \/ stale(lr, t) \/ ~schema_ok(te, cols)

must_refresh(dl, te, cols, lr, t) ==
    IF dl = 2
    THEN ~schema_ok(te, cols)
    ELSE dl = 1 \/ ~te \/ stale(lr, t) \/ ~schema_ok(te, cols)

StoreSnapshot ==
    [table_exists |-> table_exists, existing_cols |-> existing_cols,
     markets |-> markets, last_refresh |-> last_refresh]

NoResult == [kind |-> "none"]

\* -------------------------------------------------------------------- Init
\* A fresh installation has no markets table and no last_refresh.  A store
\* left by an earlier revision holds a markets table with LegacyCols.
LegacyRow ==
    [ticker |-> "T0", event_ticker |-> EvA1, title |-> "old", category |-> ""]

\* Values of DEBUG and of ARCHIVE_DATABASE_URL in the environment; None is
\* an unset variable.
DebugValues == {None, "", "0", "1", "2", "x"}
ArchiveValues == {None, "", "archive.sqlite"}

\* int(text): the number a decimal numeral denotes; any other text raises
\* ValueError.
Numerals == {"0", "1", "2"}
IntOf(text) == CASE text = "0" -> 0 [] text = "1" -> 1 [] text = "2" -> 2

\* int(os.getenv('DEBUG', '0') or 0)
DebugText(e) == IF e.DEBUG = None THEN "0" ELSE e.DEBUG
DebugParses(e) == DebugText(e) = "" \/ DebugText(e) \in Numerals
DebugLevel(e) == IF DebugText(e) = "" THEN 0 ELSE IntOf(DebugText(e))

\* The cache file and the clock when the program starts, no call in
\* progress.
InitStore ==
    /\ now = 0
    /\ ticks = 0
    /\ \/ /\ table_exists = FALSE
          /\ existing_cols = {}
          /\ markets = <<>>
          /\ last_refresh = NoTime
       \/ /\ table_exists = TRUE
          /\ existing_cols = LegacyCols
          /\ markets = <<LegacyRow>>
          /\ last_refresh \in {NoTime, 0}
    /\ txn_rows = <<>>
    /\ txn_meta = NoTime
    /\ next_row = 0
    /\ all_markets = <<>>
    /\ cursor_token = None
    /\ requests = <<>>
    /\ responses = <<>>
    /\ series_todo = {}
    /\ series_calls = <<>>
    /\ series_to_category = <<>>
    /\ count = 0
    /\ category_val = Unbound
    /\ pre = StoreSnapshot
    /\ result = NoResult
    /\ warned = FALSE
    /\ selected_markets = {}
    /\ archive_arg = <<>>
    /\ archive_ret = 0
    /\ rpc = "idle"
    /\ robs = NoResult

\* A constructed instance: ARCHIVE_DATABASE_URL is set and DEBUG selected
\* one of the three modes.
Init ==
    /\ debug_level \in {0, 1, 2}
    /\ env \in {e \in [DEBUG : Numerals, ARCHIVE_DATABASE_URL : {"archive.sqlite"}] :
                   DebugLevel(e) = debug_level}
    /\ pc = "idle"
    /\ InitStore

\* ------------------------------------------------------------ construction
\* The process starts with any environment and no instance.
InitNew ==
    /\ env \in [DEBUG : DebugValues, ARCHIVE_DATABASE_URL : ArchiveValues]
    /\ debug_level = NoLevel
    /\ pc = "new"
    /\ InitStore

\* A constructor that leaves the archive location unchecked.
ConstructUnchecked ==
    /\ pc = "new"
    /\ IF ~DebugParses(env)
       THEN /\ pc' = "dead"
            /\ result' = [kind |-> "raised", error |-> "ValueError", page |-> 0]
            /\ UNCHANGED debug_level
       ELSE /\ debug_level' = DebugLevel(env)
            /\ pc' = "idle"
            /\ UNCHANGED result
    /\ UNCHANGED <<env, clockVars, storeVars, txnVars, listVars, enrichVars,
                   pre, warned, archVars, readerVars>>

\* Database(): debug_level is parsed from DEBUG, then a missing or empty
\* ARCHIVE_DATABASE_URL raises RuntimeError.  An exception leaves the
\* caller without an instance.
Construct ==
    /\ pc = "new"
    /\ IF ~DebugParses(env)
       THEN /\ pc' = "dead"
            /\ result' = [kind |-> "raised", error |-> "ValueError", page |-> 0]
            /\ UNCHANGED debug_level
       ELSE /\ debug_level' = DebugLevel(env)
            /\ IF env.ARCHIVE_DATABASE_URL \in {None, ""}
               THEN /\ pc' = "dead"
                    /\ result' = [kind |-> "raised", error |-> "RuntimeError",
                                  page |-> 0]
               ELSE /\ pc' = "idle"
                    /\ UNCHANGED result
    /\ UNCHANGED <<env, clockVars, storeVars, txnVars, listVars, enrichVars,
                   pre, warned, archVars, readerVars>>

\* ------------------------------------------------------------------- clock
Jumps == {FreshnessWindow - 1, FreshnessWindow, FreshnessWindow + 1}

\* Time passes between two reads, and while a refresh is fetching.
Tick ==
    /\ pc \in {"idle", "meta"}
    /\ ticks < MaxTicks
    /\ \E d \in Jumps : now' = now + d
    /\ ticks' = ticks + 1
    /\ UNCHANGED <<config, storeVars, txnVars, pc, listVars,
                   enrichVars, pre, result, warned, archVars, readerVars>>

\* ------------------------------------------------- _refresh_markets_if_needed
\* The read with the table dropped as soon as a refresh is decided, before
\* the listing is fetched.
ReadDropFirst ==
    /\ pc = "idle"
    /\ pre' = StoreSnapshot
    /\ result' = NoResult
    /\ UNCHANGED <<listVars, enrichVars>>
    /\ IF must_refresh(debug_level, table_exists, existing_cols, last_refresh, now)
       THEN /\ pc' = "list"
            /\ warned' = FALSE
            /\ table_exists' = FALSE
            /\ existing_cols' = {}
            /\ markets' = <<>>
            /\ UNCHANGED last_refresh
       ELSE /\ pc' = "return"
            /\ warned' = (debug_level = 2 /\ Len(markets) = 0)
            /\ UNCHANGED storeVars
    /\ UNCHANGED <<config, clockVars, txnVars, archVars, readerVars>>

\* get_conn / fetch_markets enter _refresh_markets_if_needed, which reads
\* the store state and applies the policy of debug_level.
Read ==
    /\ pc = "idle"
    /\ pre' = StoreSnapshot
    /\ result' = NoResult
    /\ UNCHANGED <<listVars, enrichVars>>
    /\ IF must_refresh(debug_level, table_exists, existing_cols, last_refresh, now)
       THEN /\ pc' = "list"
            /\ warned' = FALSE
       ELSE /\ pc' = "return"
            /\ warned' = (debug_level = 2 /\ Len(markets) = 0)
    /\ UNCHANGED <<config, clockVars, storeVars, txnVars, archVars,
                   readerVars>>

\* The request log and the cursor are not used once the listing loop is
\* left.
ForgetListing ==
    /\ cursor_token' = None
    /\ requests' = <<>>
    /\ responses' = <<>>

\* The locals of _fetch_and_rebuild go out of scope when the read ends.
ForgetLocals ==
    /\ all_markets' = <<>>
    /\ ForgetListing
    /\ series_todo' = {}
    /\ series_calls' = <<>>
    /\ series_to_category' = <<>>
    /\ count' = 0
    /\ category_val' = Unbound

\* An exception leaves _fetch_and_rebuild and the read: the connection is
\* dropped without commit, its open transaction is rolled back.
Raise(err, page) ==
    /\ pc' = "idle"
    /\ result' = [kind |-> "raised", error |-> err, page |-> page]
    /\ txn_rows' = <<>>
    /\ txn_meta' = NoTime
    /\ next_row' = 0
    /\ ForgetLocals

\* ------------------------------------------------------------ listing loop
\* The cursor is never sent.
CursorParamDropped(tok) == None

\* params['cursor'] is set only for a truthy cursor_token
CursorParam(tok) == IF tok \in {None, ""} THEN None ELSE tok

\* One iteration of the while loop: request, raise_for_status, extend,
\* take the cursor, break when it is absent or empty.
ListPage ==
    /\ pc = "list"
    /\ \E batch \in Batches, cur \in CursorTokens \cup {None, ""} :
          /\ Len(requests) + 1 >= MaxPages => cur \in {None, ""}
          /\ requests' = Append(requests, CursorParam(cursor_token))
          /\ responses' = Append(responses, [markets |-> batch, cursor |-> cur])
          /\ all_markets' = all_markets \o batch
          /\ cursor_token' = cur
          /\ IF cur \in {None, ""}
             THEN /\ pc' = "enrich"
                  /\ series_todo' = series_set(all_markets')
             ELSE /\ pc' = "list"
                  /\ series_todo' = series_todo
    /\ UNCHANGED <<config, clockVars, storeVars, txnVars,
                   series_calls, series_to_category, count, category_val,
                   pre, result, warned, archVars, readerVars>>

\* requests.get raises (connection, timeout) or raise_for_status raises on
\* the request of the next page; the error leaves fetch_markets.
ListFail ==
    /\ pc = "list"
    /\ Raise("TransportError", Len(requests) + 1)
    /\ UNCHANGED <<config, clockVars, storeVars, pre, warned, archVars,
                   readerVars>>

\* --------------------------------------------------------------- enrichment
\* The first-iteration log line formats category_val, which is bound only
\* once a lookup has succeeded: formatting an unbound local raises.
FirstLogRaises(cnt, cv) == cnt = 1 /\ cv = Unbound

\* series_to_category[series] = category_val
MapPut(map, key, val) ==
    [k \in DOMAIN map \cup {key} |-> IF k = key THEN val ELSE map[k]]

\* The loop writing each category it has fetched into the rows of the
\* markets table at once.
LookupWritingThrough(series, ok) ==
    /\ pc = "enrich"
    /\ series \in series_todo
    /\ LET cv == IF ok THEN CategoryOfResponse(series) ELSE category_val
       IN  IF FirstLogRaises(count + 1, cv)
           THEN Raise("UnboundLocalError", 0) /\ UNCHANGED markets
           ELSE /\ count' = count + 1
                /\ series_calls' = Append(series_calls, series)
                /\ series_todo' = series_todo \ {series}
                /\ category_val' = cv
                /\ series_to_category' =
                      IF ok THEN MapPut(series_to_category, series, cv)
                      ELSE series_to_category
                /\ markets' =
                      IF ok
                      THEN [i \in 1..Len(markets) |->
                              IF SeriesKey(markets[i].event_ticker) = series
                              THEN [markets[i] EXCEPT !.category = cv]
                              ELSE markets[i]]
                      ELSE markets
                /\ pc' = "enrich"
                /\ UNCHANGED <<result, txnVars, listVars>>
    /\ UNCHANGED <<config, clockVars, table_exists, existing_cols,
                   last_refresh, pre, warned, archVars, readerVars>>

\* One iteration of "for series in series_set": the set is iterated in an
\* arbitrary order.  ok tells whether the request and its decoding succeed.
Lookup(series, ok) ==
    /\ pc = "enrich"
    /\ series \in series_todo
    /\ LET cv == IF ok THEN CategoryOfResponse(series) ELSE category_val
       IN  IF FirstLogRaises(count + 1, cv)
           THEN Raise("UnboundLocalError", 0)
           ELSE /\ count' = count + 1
                /\ series_calls' = Append(series_calls, series)
                /\ series_todo' = series_todo \ {series}
                /\ category_val' = cv
                /\ series_to_category' =
                      IF ok THEN MapPut(series_to_category, series, cv)
                      ELSE series_to_category
                /\ pc' = "enrich"
                /\ UNCHANGED <<result, txnVars, listVars>>
    /\ UNCHANGED <<config, clockVars, storeVars, pre, warned, archVars,
                   readerVars>>

\* The loop takes any series not yet iterated; its request succeeds or not.
EnrichStep == \E s \in series_todo, ok \in BOOLEAN : Lookup(s, ok)

\* for m in all_markets: m['category'] = series_to_category.get(base, '')
Enriched(ms, map) ==
    [i \in 1..Len(ms) |->
        [ticker |-> ms[i].ticker, event_ticker |-> ms[i].event_ticker,
         title |-> ms[i].title,
         category |-> MapGet(map, SeriesKey(ms[i].event_ticker))]]

ApplyCategories ==
    /\ pc = "enrich"
    /\ series_todo = {}
    /\ all_markets' = Enriched(all_markets, series_to_category)
    /\ pc' = "drop"
    /\ ForgetListing
    /\ UNCHANGED <<config, clockVars, storeVars, txnVars, enrichVars,
                   pre, result, warned, archVars, readerVars>>

\* ------------------------------------------------------------------ rebuild
\* cur.execute("DROP TABLE IF EXISTS markets"): no transaction is open, the
\* statement is committed at once.
DropTable ==
    /\ pc = "drop"
    /\ table_exists' = FALSE
    /\ existing_cols' = {}
    /\ markets' = <<>>
    /\ pc' = "create"
    /\ UNCHANGED <<config, clockVars, last_refresh, txnVars,
                   listVars, enrichVars, pre, result, warned, archVars,
                   readerVars>>

\* cur.execute("CREATE TABLE markets (...)"): committed at once as well.
CreateTable ==
    /\ pc = "create"
    /\ table_exists' = TRUE
    /\ existing_cols' = schema_fields
    /\ markets' = <<>>
    /\ pc' = IF Len(all_markets) = 0 THEN "meta" ELSE "insert"
    /\ UNCHANGED <<config, clockVars, last_refresh, txnVars,
                   listVars, enrichVars, pre, result, warned, archVars,
                   readerVars>>

\* The insert loop writing into the rows of the previous snapshot, as if
\* the table had not been dropped.
InsertRowKeepingOld ==
    /\ pc = "insert"
    /\ next_row < Len(all_markets)
    /\ txn_rows' = InsertOrIgnore(IF next_row = 0 THEN pre.markets ELSE txn_rows,
                                  Row(all_markets[next_row + 1]))
    /\ next_row' = next_row + 1
    /\ pc' = IF next_row' = Len(all_markets) THEN "meta" ELSE "insert"
    /\ UNCHANGED <<config, clockVars, storeVars, txn_meta, listVars,
                   enrichVars, pre, result, warned, archVars, readerVars>>

\* One iteration of the insert loop.  The first INSERT opens the
\* transaction; the rows stay private to the connection until commit.
InsertRow ==
    /\ pc = "insert"
    /\ next_row < Len(all_markets)
    /\ txn_rows' = InsertOrIgnore(txn_rows, Row(all_markets[next_row + 1]))
    /\ next_row' = next_row + 1
    /\ pc' = IF next_row' = Len(all_markets) THEN "meta" ELSE "insert"
    /\ UNCHANGED <<config, clockVars, storeVars, txn_meta, listVars,
                   enrichVars, pre, result, warned, archVars, readerVars>>

\* The timestamp written outside the transaction: durable as soon as the
\* statement has run.
WriteTimestampDurable ==
    /\ pc = "meta"
    /\ txn_meta' = now
    /\ last_refresh' = now
    /\ pc' = "commit"
    /\ UNCHANGED <<config, clockVars, table_exists, existing_cols,
                   markets, txn_rows, next_row, listVars, enrichVars, pre,
                   result, warned, archVars, readerVars>>

\* INSERT OR REPLACE INTO metadata ('last_refresh', datetime.now())
WriteTimestamp ==
    /\ pc = "meta"
    /\ txn_meta' = now
    /\ pc' = "commit"
    /\ UNCHANGED <<config, clockVars, storeVars, txn_rows, next_row,
                   listVars, enrichVars, pre, result, warned, archVars,
                   readerVars>>

\* A commit that publishes the rows and loses the timestamp.
CommitRowsOnly ==
    /\ pc = "commit"
    /\ markets' = txn_rows
    /\ last_refresh' = last_refresh
    /\ txn_rows' = <<>>
    /\ txn_meta' = NoTime
    /\ next_row' = 0
    /\ pc' = "return"
    /\ UNCHANGED <<config, clockVars, table_exists, existing_cols,
                   listVars, enrichVars, pre, result, warned, archVars,
                   readerVars>>

\* conn.commit(): the inserted rows and the timestamp become durable.
Commit ==
    /\ pc = "commit"
    /\ markets' = txn_rows
    /\ last_refresh' = txn_meta
    /\ txn_rows' = <<>>
    /\ txn_meta' = NoTime
    /\ next_row' = 0
    /\ pc' = "return"
    /\ UNCHANGED <<config, clockVars, table_exists, existing_cols,
                   listVars, enrichVars, pre, result, warned, archVars,
                   readerVars>>

\* A statement of the rebuild raises after the DROP was executed (a value
\* sqlite3 cannot bind, a locked or full database, an interrupt).  Nothing
\* in _fetch_and_rebuild or its callers catches it.
RebuildFail ==
    /\ pc \in {"create", "insert", "meta", "commit"}
    /\ Raise("RebuildError", 0)
    /\ UNCHANGED <<config, clockVars, storeVars, pre, warned, archVars,
                   readerVars>>

\* ------------------------------------------------------------- read facade
\* The SELECT of fetch_markets: field renames only.
Display(r) ==
    [title |-> r.title, market_event_ticker |-> r.ticker,
     event_title |-> r.event_ticker, category |-> r.category]

Select(te, rows) ==
    IF te
    THEN [kind |-> "rows", rows |-> [i \in 1..Len(rows) |-> Display(rows[i])]]
    ELSE [kind |-> "raised", error |-> "OperationalError", page |-> 0]

\* _refresh_markets_if_needed has returned.  fetch_markets reads the
\* markets table through a connection of its own and returns the rows.
ReturnRows ==
    /\ pc = "return"
    /\ result' = Select(table_exists, markets)
    /\ pre' = StoreSnapshot
    /\ pc' = "idle"
    /\ ForgetLocals
    /\ UNCHANGED <<config, clockVars, storeVars, txnVars, warned,
                   archVars, readerVars>>

\* get_conn hands out a connection and reads nothing.
ReturnConn ==
    /\ pc = "return"
    /\ result' = [kind |-> "conn"]
    /\ pre' = StoreSnapshot
    /\ pc' = "idle"
    /\ ForgetLocals
    /\ UNCHANGED <<config, clockVars, storeVars, txnVars, warned,
                   archVars, readerVars>>

\* ------------------------------------------------------------------ archive
\* Rows a caller can select in the grid: display rows of the known records,
\* with or without their category.
ArchiveRows ==
    {Display([ticker |-> m.ticker, event_ticker |-> m.event_ticker,
              title |-> m.title, category |-> c]) :
        m \in Records, c \in {"", "Politics"}}

ArchiveArgs == SeqsUpTo(ArchiveRows, MaxArchive)

ArchivedTickers(tbl) == {r.market_event_ticker : r \in tbl}

\* The loop counting every row it executes, inserted or ignored.
RECURSIVE ArchiveLoopCountAll(_, _, _)
ArchiveLoopCountAll(tbl, df, inserted) ==
    IF df = <<>>
    THEN [table |-> tbl, inserted |-> inserted]
    ELSE LET row == Head(df)
             present == row.market_event_ticker \in ArchivedTickers(tbl)
         IN  ArchiveLoopCountAll(IF present THEN tbl ELSE tbl \cup {row},
                                 Tail(df), inserted + 1)

\* The loop with INSERT OR REPLACE: a row replaces the archived row of its
\* ticker.
RECURSIVE ArchiveLoopReplace(_, _, _)
ArchiveLoopReplace(tbl, df, inserted) ==
    IF df = <<>>
    THEN [table |-> tbl, inserted |-> inserted]
    ELSE LET row == Head(df)
             others == {r \in tbl :
                          r.market_event_ticker # row.market_event_ticker}
         IN  ArchiveLoopReplace(others \cup {row}, Tail(df), inserted + 1)

\* The loop of archive(): INSERT OR IGNORE row by row, counting the rows
\* for which cur.rowcount is 1.
RECURSIVE ArchiveLoop(_, _, _)
ArchiveLoop(tbl, df, inserted) ==
    IF df = <<>>
    THEN [table |-> tbl, inserted |-> inserted]
    ELSE LET row == Head(df)
             rowcount ==
                 IF row.market_event_ticker \in ArchivedTickers(tbl)
                 THEN 0 ELSE 1
         IN  ArchiveLoop(IF rowcount = 1 THEN tbl \cup {row} ELSE tbl,
                         Tail(df), inserted + rowcount)

\* archive() obtaining its connection from get_conn, and so evaluating the
\* refresh policy of the cache.
ArchiveThroughGetConn(df) ==
    /\ pc = "idle"
    /\ LET run == ArchiveLoop(selected_markets, df, 0)
       IN  /\ selected_markets' = run.table
           /\ archive_ret' = run.inserted
    /\ archive_arg' = df
    /\ pc' = IF must_refresh(debug_level, table_exists, existing_cols,
                             last_refresh, now)
             THEN "list" ELSE "return"
    /\ UNCHANGED <<config, clockVars, storeVars, txnVars, listVars,
                   enrichVars, pre, result, warned, readerVars>>

\* archive(df): called by the dashboard between two reads.
Archive(df) ==
    /\ pc = "idle"
    /\ LET run == ArchiveLoop(selected_markets, df, 0)
       IN  /\ selected_markets' = run.table
           /\ archive_ret' = run.inserted
    /\ archive_arg' = df
    /\ UNCHANGED <<config, clockVars, storeVars, txnVars, pc, listVars,
                   enrichVars, pre, result, warned, readerVars>>

\* ------------------------------------------------------------ second reader
\* Another Database instance on the same cache file, at some debug level:
\* its own _refresh_markets_if_needed finds nothing to refresh.
ReaderCheck ==
    /\ rpc = "idle"
    /\ \E dl \in {0, 1, 2} :
          ~must_refresh(dl, table_exists, existing_cols, last_refresh, now)
    /\ rpc' = "select"
    /\ robs' = NoResult
    /\ UNCHANGED <<config, clockVars, storeVars, txnVars, pc, listVars,
                   enrichVars, pre, result, warned, archVars>>

\* Its fetch_markets then runs the SELECT on a connection of its own, which
\* sees the committed content of the file.
ReaderSelect ==
    /\ rpc = "select"
    /\ robs' = Select(table_exists, markets)
    /\ rpc' = "idle"
    /\ UNCHANGED <<config, clockVars, storeVars, txnVars, pc, listVars,
                   enrichVars, pre, result, warned, archVars>>

Next ==
    \/ Tick
    \/ Read
    \/ ListPage
    \/ ListFail
    \/ EnrichStep
    \/ ApplyCategories
    \/ DropTable
    \/ CreateTable
    \/ InsertRow
    \/ WriteTimestamp
    \/ Commit
    \/ RebuildFail
    \/ ReturnRows
    \/ ReturnConn

Spec == Init /\ [][Next]_vars

\* The refreshing caller together with a second reader.
NextConc ==
    \/ Next
    \/ ReaderCheck
    \/ ReaderSelect

SpecConc == Init /\ [][NextConc]_vars

\* The archive store on its own.
NextArchive == \E df \in ArchiveArgs : Archive(df)

SpecArchive == Init /\ [][NextArchive]_vars

\* --------------------------------------------------------------- dashboard
\* The rows of a grid at the positions S, in grid order.
RECURSIVE Pick(_, _, _)
Pick(rows, S, i) ==
    IF i > Len(rows) THEN <<>>
    ELSE (IF i \in S THEN <<rows[i]>> ELSE <<>>) \o Pick(rows, S, i + 1)

\* The grid shows the rows of the last fetch_markets; the rows the user
\* has ticked are passed to archive().
Selections ==
    IF result.kind = "rows"
    THEN {Pick(result.rows, S, 1) :
            S \in {T \in SUBSET (1..Len(result.rows)) :
                      T # {} /\ Cardinality(T) <= MaxArchive}}
    ELSE {}

\* The "archive" button, pressed once in a session.
ArchiveSelected ==
    /\ archive_arg = <<>>
    /\ \E sel \in Selections : Archive(sel)

\* One dashboard session at a fixed instant: reads, refreshes and one
\* archive call.  Sequences of archive calls are SpecArchive, the passing
\* of time is Spec.
NextApp ==
    \/ Read
    \/ ListPage
    \/ ListFail
    \/ EnrichStep
    \/ ApplyCategories
    \/ DropTable
    \/ CreateTable
    \/ InsertRow
    \/ WriteTimestamp
    \/ Commit
    \/ RebuildFail
    \/ ReturnRows
    \/ ReturnConn
    \/ ArchiveSelected

SpecApp == Init /\ [][NextApp]_vars

\* The program from its start: construction, then reads and refreshes.
NextNew ==
    \/ Construct
    \/ Next

SpecNew == InitNew /\ [][NextNew]_vars

\* =================================================================== claims
Raised(err) == pc = "idle" /\ result.kind = "raised" /\ result.error = err

\* C1: a failure raised between the DROP and the final commit aborts the
\* refresh transactionally: when the read has raised that way, the markets
\* table holds exactly the snapshot it held before the read and
\* last_refresh is unchanged.  Stated for a store that held a snapshot
\* written by an earlier refresh.
C1_FailedRebuildKeepsSnapshot ==
    (/\ Raised("RebuildError")
     /\ pre.existing_cols = schema_fields
     /\ pre.markets # <<>>)
        => StoreSnapshot = pre

\* C2: with several distinct series keys in the listing, no step of the
\* enrichment loop aborts the refresh: whichever lookup fails, the loop
\* goes on and the refresh proceeds to the rebuild.
C2_LookupFailureTolerated ==
    [][(pc = "enrich" /\ Cardinality(series_set(all_markets)) >= 2)
          => pc' \in {"enrich", "drop"}]_vars

\* C3: while the listing is being fetched, and after a listing request
\* (the first or a later one) has failed and the error has left the read,
\* the markets table and last_refresh are what they were before the read,
\* and nothing is pending on the connection.
C3_ListingFailureLeavesCache ==
    (pc = "list" \/ Raised("TransportError"))
        => (StoreSnapshot = pre /\ txn_rows = <<>> /\ txn_meta = NoTime)

\* C3 witness: the request of a second page failed over a store that held
\* a refreshed snapshot.
C3_Witness ==
    /\ Raised("TransportError")
    /\ result.page = 2
    /\ markets # <<>>
    /\ last_refresh # NoTime

\* The step in which a read evaluates the refresh policy.
ReadStep == pc = "idle" /\ pc' \in {"list", "return"}

\* C4: in mode normal a read runs the pipeline iff the markets table is
\* missing, or lacks one of ticker, subtitle, open_time, close_time,
\* last_price, or there is no last_refresh, or last_refresh is older than
\* the freshness window; otherwise it goes straight to the cached rows.
C4_NormalRefreshIff ==
    [][(ReadStep /\ debug_level = 0) =>
         ((pc' = "list") <=>
            \/ ~table_exists
            \/ \E c \in {"ticker", "subtitle", "open_time", "close_time",
                         "last_price"} : c \notin existing_cols
            \/ last_refresh = NoTime
            \/ now - last_refresh > FreshnessWindow)]_vars

\* C4 witness: in mode normal a read over a present, schema-complete store
\* refreshed earlier and still fresh has skipped the pipeline.
C4_Witness ==
    /\ debug_level = 0
    /\ pc = "return"
    /\ pre = StoreSnapshot
    /\ existing_cols = schema_fields
    /\ markets # <<>>
    /\ now > last_refresh
    /\ all_markets = <<>>

\* C5: in mode offline a read runs the pipeline iff the markets table is
\* missing or lacks a required column; otherwise it issues no remote call
\* whatever last_refresh is, does not raise, and warns iff the table is
\* empty.
C5_OfflineRefreshIff ==
    [][(ReadStep /\ debug_level = 2) =>
         /\ (pc' = "list") <=>
               \/ ~table_exists
               \/ \E c \in {"ticker", "subtitle", "open_time", "close_time",
                            "last_price"} : c \notin existing_cols
         /\ pc' = "return" =>
               /\ result'.kind # "raised"
               /\ warned' <=> (markets = <<>>)]_vars

\* C5 witness: in mode offline a read over an empty, schema-complete table
\* whose last_refresh is older than the window has skipped the pipeline and
\* warned.
C5_Witness ==
    /\ debug_level = 2
    /\ pc = "return"
    /\ pre = StoreSnapshot
    /\ warned
    /\ markets = <<>>
    /\ last_refresh # NoTime
    /\ now - last_refresh > FreshnessWindow

\* C6: in mode force every read starts the pipeline with a listing
\* request, whatever the store holds.
C6_ForceAlwaysRefreshes ==
    [][(ReadStep /\ debug_level = 1) => pc' = "list"]_vars

\* C6 witness: in mode force a read has started a refresh over a present,
\* schema-complete, non-empty store refreshed at this very instant.
C6_Witness ==
    /\ debug_level = 1
    /\ pc = "list"
    /\ table_exists
    /\ existing_cols = schema_fields
    /\ markets # <<>>
    /\ last_refresh = now

\* C7: a reader whose SELECT runs while a refresh is in progress gets rows,
\* and they are the complete pre-refresh snapshot or, once the refresh has
\* committed, the complete post-refresh snapshot.  Stated for a refresh
\* that replaces a non-empty snapshot by a non-empty listing, so that a
\* missing or empty table is neither of the two.
C7_ReaderSeesCompleteSnapshot ==
    [][(/\ rpc = "select" /\ rpc' = "idle"
        /\ pc # "idle"
        /\ pre.existing_cols = schema_fields
        /\ pre.markets # <<>>
        /\ pc \notin {"list", "enrich"} => all_markets # <<>>)
         => \/ robs' = Select(TRUE, pre.markets)
            \/ pc = "return" /\ robs' = Select(TRUE, markets)]_vars

\* The index of the first record of ms that carries ticker t.
FirstIndex(ms, t) == Min({k \in 1..Len(ms) : ms[k].ticker = t})

\* C8: the commit of a refresh leaves a markets table with one row per
\* ticker of the listing, and each row is built from the first record of
\* the listing that carries its ticker.
C8_UniqueTickersFirstWins ==
    [][(pc = "commit" /\ pc' = "return") =>
         /\ \A i, j \in 1..Len(markets') :
               markets'[i].ticker = markets'[j].ticker => i = j
         /\ Tickers(markets') = Tickers(all_markets)
         /\ \A i \in 1..Len(markets') :
               LET m == all_markets[FirstIndex(all_markets, markets'[i].ticker)]
               IN  /\ markets'[i].event_ticker = m.event_ticker
                   /\ markets'[i].title = m.title
                   /\ markets'[i].category = m.category]_vars

\* C8 witness: a refresh has committed a listing of two records with the
\* same ticker, and the table holds one row.
C8_Witness ==
    /\ pc = "return"
    /\ Len(all_markets) = 2
    /\ all_markets[1].ticker = all_markets[2].ticker
    /\ Len(markets) = 1

\* Tickers of the rows of an archive() argument.
ArgTickers(df) == {df[i].market_event_ticker : i \in 1..Len(df)}

\* C9: archive(df) returns the number of distinct tickers of df that were
\* not archived before the call and adds one row for each of them, nothing
\* else; a call repeating the argument of the call before it returns 0 and
\* leaves the archive as it was.
C9_ArchiveCountsNewTickers ==
    [][LET new == ArgTickers(archive_arg') \ ArchivedTickers(selected_markets)
       IN  /\ archive_ret' = Cardinality(new)
           /\ selected_markets \subseteq selected_markets'
           /\ ArchivedTickers(selected_markets' \ selected_markets) = new
           /\ Cardinality(selected_markets' \ selected_markets)
                 = Cardinality(new)
           /\ \A r \in selected_markets' \ selected_markets :
                 \E i \in 1..Len(archive_arg') : archive_arg'[i] = r
           /\ (archive_arg' = archive_arg /\ archive_arg # <<>>) =>
                 (archive_ret' = 0 /\ selected_markets' = selected_markets)
      ]_archVars

\* C9 witness: a call with two rows returned 0: both tickers were archived
\* already.
C9_Witness ==
    /\ Len(archive_arg) = 2
    /\ archive_arg[1].market_event_ticker # archive_arg[2].market_event_ticker
    /\ archive_ret = 0
    /\ Cardinality(selected_markets) = 2

\* Concatenation of the batches of the first n responses.
RECURSIVE Concat(_, _)
Concat(rs, n) == IF n = 0 THEN <<>> ELSE Concat(rs, n - 1) \o rs[n].markets

\* C10: in the listing loop and on leaving it, one request was issued per
\* page received, the first without cursor and each later one with the
\* cursor of the page before it; every page but the last carried a
\* non-empty cursor; the loop is left exactly when a page carries none;
\* and the accumulated listing is the concatenation of the batches in
\* request order.
C10_PaginationFollowsCursors ==
    (pc \in {"list", "enrich"}) =>
        LET k == Len(responses)
        IN  /\ Len(requests) = k
            /\ \A i \in 1..k :
                  requests[i] = IF i = 1 THEN None ELSE responses[i - 1].cursor
            /\ \A i \in 1..(k - 1) : responses[i].cursor \notin {None, ""}
            /\ pc = "enrich" <=> (k > 0 /\ responses[k].cursor \in {None, ""})
            /\ all_markets = Concat(responses, k)

\* C10 witness: the loop was left after two pages of one record each.
C10_Witness ==
    /\ pc = "enrich"
    /\ Len(responses) = 2
    /\ Len(responses[1].markets) = 1
    /\ Len(responses[2].markets) = 1
    /\ Len(requests) = 2

\* C11: over a present, schema-complete store a read in mode normal
\* refreshes iff there is no last_refresh or more than 24 hours have
\* passed since it: a store refreshed at T is read from the cache at
\* T + 24h - 1s and at exactly T + 24h, and is refreshed at T + 24h + 1s.
C11_StalenessBoundary ==
    [][(/\ ReadStep
        /\ debug_level = 0
        /\ table_exists
        /\ required \subseteq existing_cols) =>
         /\ (pc' = "list") <=>
               (last_refresh = NoTime \/ now - last_refresh >= 86400 + 1)
         /\ (last_refresh # NoTime /\ now = last_refresh + 86400 - 1)
               => pc' = "return"
         /\ (last_refresh # NoTime /\ now = last_refresh + 86400)
               => pc' = "return"
         /\ (last_refresh # NoTime /\ now = last_refresh + 86400 + 1)
               => pc' = "list"]_vars

\* C11 witness: in mode normal a read exactly 24 hours after the refresh
\* that wrote the snapshot has skipped the pipeline.
C11_Witness ==
    /\ debug_level = 0
    /\ pc = "return"
    /\ pre = StoreSnapshot
    /\ existing_cols = schema_fields
    /\ markets # <<>>
    /\ last_refresh # NoTime
    /\ now - last_refresh = 86400

\* C12: in mode normal a read over an empty store (no table, no
\* last_refresh) starts the pipeline; a read runs the pipeline at most
\* once; the commit of the pipeline sets last_refresh to the current time
\* and leaves a table whose rows are built from the fetched records, one
\* per fetched ticker; a later read within the freshness window goes to the
\* cached rows without entering the pipeline, leaves the store as it is and
\* returns exactly the rows of the table.
C12_NormalEndToEnd ==
    [][debug_level = 0 =>
         /\ (ReadStep /\ ~table_exists /\ markets = <<>>
                /\ last_refresh = NoTime) => pc' = "list"
         /\ (pc' = "list" /\ pc # "list") => pc = "idle"
         /\ (pc' = "drop" /\ pc # "drop") => pc = "enrich"
         /\ (pc = "commit" /\ pc' = "return") =>
               /\ last_refresh' = now
               /\ Tickers(markets') = Tickers(all_markets)
               /\ \A i \in 1..Len(markets') :
                     \E k \in 1..Len(all_markets) :
                        markets'[i] = Row(all_markets[k])
         /\ (ReadStep /\ existing_cols = schema_fields
                /\ last_refresh # NoTime
                /\ now - last_refresh <= 86400) =>
               (pc' = "return" /\ UNCHANGED storeVars)
         /\ (pc = "return" /\ pc' = "idle" /\ result'.kind = "rows") =>
               /\ UNCHANGED storeVars
               /\ Len(result'.rows) = Len(markets)
               /\ \A i \in 1..Len(markets) :
                     /\ result'.rows[i].market_event_ticker = markets[i].ticker
                     /\ result'.rows[i].title = markets[i].title
                     /\ result'.rows[i].event_title = markets[i].event_ticker
                     /\ result'.rows[i].category = markets[i].category]_vars

\* C12 witness: in mode normal the store was refreshed at time 0 with two
\* records, and a read one second before the end of the window has skipped
\* the pipeline.
C12_Witness ==
    /\ debug_level = 0
    /\ pc = "return"
    /\ pre = StoreSnapshot
    /\ Len(markets) = 2
    /\ last_refresh = 0
    /\ now = 86400 - 1
    /\ requests = <<>>
    /\ series_calls = <<>>

\* C13: the commit of a refresh replaces the snapshot: the tickers of the
\* markets table are exactly the tickers of the new listing, a ticker of
\* the snapshot before the read that the new listing does not carry is
\* gone, and every row is built from a record of the new listing, whatever
\* the row of the same ticker held before.
C13_RefreshReplacesSnapshot ==
    [][(pc = "commit" /\ pc' = "return") =>
         /\ Tickers(markets') = Tickers(all_markets)
         /\ \A t \in Tickers(pre.markets) \ Tickers(all_markets) :
               t \notin Tickers(markets')
         /\ \A i \in 1..Len(markets') :
               \E k \in 1..Len(all_markets) :
                  /\ markets'[i].ticker = all_markets[k].ticker
                  /\ markets'[i].event_ticker = all_markets[k].event_ticker
                  /\ markets'[i].title = all_markets[k].title
                  /\ markets'[i].category = all_markets[k].category]_vars

\* C13 witness: a refresh has committed over a snapshot written by an
\* earlier refresh; a ticker of the old snapshot is absent from the new
\* one, and a ticker they share has a row with other field values.
C13_Witness ==
    /\ pc = "return"
    /\ pre.existing_cols = schema_fields
    /\ pre # StoreSnapshot
    /\ \E t \in Tickers(pre.markets) : t \notin Tickers(markets)
    /\ \E i \in 1..Len(pre.markets), j \in 1..Len(markets) :
          /\ pre.markets[i].ticker = markets[j].ticker
          /\ pre.markets[i].title # markets[j].title

\* C14: a store without a markets table starts without last_refresh, and
\* last_refresh changes in one step only, the commit that ends a rebuild,
\* which gives it the timestamp written in the transaction.  So it is
\* what it was when the read began while a refresh is running and after
\* the read has raised, and the policy step, the return of a read and an
\* archive call leave it as it is.
C14_LastRefreshLifecycle ==
    /\ (~table_exists => last_refresh = NoTime)
    /\ [][/\ last_refresh' # last_refresh =>
               (pc = "commit" /\ pc' = "return" /\ last_refresh' = txn_meta)
          /\ (ReadStep /\ pc' = "return") => last_refresh' = last_refresh
          /\ archive_arg' # archive_arg => last_refresh' = last_refresh]_vars
    /\ [](pc # "return" => last_refresh = pre.last_refresh)

\* C14 witness: after a refresh and an archive call, a later refresh has
\* failed during the rebuild and last_refresh is still the time of the
\* first refresh.
C14_Witness ==
    /\ Raised("RebuildError")
    /\ selected_markets # {}
    /\ last_refresh # NoTime
    /\ pre.existing_cols = schema_fields
    /\ StoreSnapshot # pre

\* C15: an archive call removes no row and no ticker from the archive, and
\* every row it leaves for a ticker that was archived before the call is
\* the row that was there before the call, whatever field values the call
\* carries for that ticker.
C15_ArchiveGrowsMonotonically ==
    [][/\ selected_markets \subseteq selected_markets'
       /\ ArchivedTickers(selected_markets)
             \subseteq ArchivedTickers(selected_markets')
       /\ \A r \in selected_markets' :
             r.market_event_ticker \in ArchivedTickers(selected_markets)
                => r \in selected_markets]_archVars

\* C15 witness: a call carried one row for a ticker archived by an earlier
\* call, with other field values; nothing was inserted and the archive
\* holds the earlier row, not the row of the call.
C15_Witness ==
    /\ Len(archive_arg) = 1
    /\ archive_ret = 0
    /\ archive_arg[1] \notin selected_markets
    /\ \E r \in selected_markets :
          /\ r.market_event_ticker = archive_arg[1].market_event_ticker
          /\ r.title # archive_arg[1].title

\* C16: an archive call does not move the caller into the refresh policy
\* or the pipeline, issues no listing or series request and leaves the
\* markets table, its schema, last_refresh and the open transaction as
\* they are; and no step of a read or of a refresh, whether it ends with a
\* commit or with an exception, changes the archive table or the outcome
\* of the last archive call.
C16_ArchiveAndRefreshIndependent ==
    [][/\ archive_arg' # archive_arg =>
             /\ pc' = pc
             /\ UNCHANGED <<requests, responses, series_calls>>
             /\ UNCHANGED <<table_exists, existing_cols, markets,
                            last_refresh, txn_rows, txn_meta>>
       /\ (pc # "idle" \/ pc' # "idle") =>
             UNCHANGED <<selected_markets, archive_arg, archive_ret>>]_vars

\* C16 witness: rows were archived, and a later refresh has committed a
\* snapshot that no longer holds an archived ticker; the archive still
\* holds what the archive call left.
C16_Witness ==
    /\ pc = "return"
    /\ pre # StoreSnapshot
    /\ archive_ret > 0
    /\ Cardinality(selected_markets) = archive_ret
    /\ \E r \in selected_markets : r.market_event_ticker \notin Tickers(markets)

\* C17: with ARCHIVE_DATABASE_URL unset or empty the constructor raises
\* (RuntimeError once DEBUG has parsed) and no instance exists afterwards:
\* no policy step and no request follows, and the cache is as it was when
\* the process started.  With DEBUG unset or empty a constructed instance
\* has debug_level 0 and its reads follow the normal policy.
C17_ConstructionChecksConfiguration ==
    /\ [][/\ (pc = "new" /\ env.ARCHIVE_DATABASE_URL \in {None, ""}) =>
               /\ pc' = "dead"
               /\ result'.kind = "raised"
               /\ env.DEBUG \in {None, "", "0", "1", "2"}
                     => result'.error = "RuntimeError"
          /\ pc = "dead" => pc' = "dead"
          /\ (pc = "new" /\ env.ARCHIVE_DATABASE_URL \notin {None, ""}
                 /\ env.DEBUG \in {None, ""}) =>
               (pc' = "idle" /\ debug_level' = 0)
          /\ (ReadStep /\ env.DEBUG \in {None, ""}) =>
               ((pc' = "list") <=>
                  \/ ~table_exists
                  \/ ~(required \subseteq existing_cols)
                  \/ last_refresh = NoTime
                  \/ now - last_refresh > 86400)]_vars
    /\ [](pc \in {"new", "dead"} =>
             /\ requests = <<>>
             /\ series_calls = <<>>
             /\ StoreSnapshot = pre
             /\ result.kind \in {"none", "raised"})

\* C17 witness: construction failed for an empty ARCHIVE_DATABASE_URL with
\* DEBUG unset, over an existing cache.
C17_Witness ==
    /\ pc = "dead"
    /\ env.ARCHIVE_DATABASE_URL = ""
    /\ env.DEBUG = None
    /\ result.kind = "raised"
    /\ result.error = "RuntimeError"
    /\ table_exists

\* C18: in a refresh the markets table and last_refresh are first written
\* by the rebuild, which starts only when the last listing page (the one
\* without cursor) has been received and every series of the listing has
\* been looked up.  Until then, and after the read was left by a transport
\* error or by any other exception of the listing or enrichment phase, the
\* store is what it was when the read began and nothing is pending on the
\* connection.
C18_RebuildIsLastStep ==
    /\ [][/\ storeVars' # storeVars => pc \in {"drop", "create", "commit"}
          /\ (pc' = "drop" /\ pc # "drop") =>
                /\ pc = "enrich"
                /\ responses # <<>>
                /\ responses[Len(responses)].cursor \in {None, ""}
                /\ series_todo = {}
                /\ {series_calls[i] : i \in 1..Len(series_calls)}
                      = series_set(all_markets)
          /\ (pc \in {"list", "enrich"} /\ pc' = "idle") =>
                /\ result'.kind = "raised"
                /\ StoreSnapshot = pre
                /\ UNCHANGED storeVars]_vars
    /\ [](\/ pc \in {"list", "enrich", "drop"}
          \/ Raised("TransportError")
          \/ Raised("UnboundLocalError")
            => (StoreSnapshot = pre /\ txn_rows = <<>> /\ txn_meta = NoTime))

\* C18 witness: over a store holding a refreshed snapshot a refresh was
\* abandoned in the enrichment phase by an exception that is no transport
\* error.
C18_Witness ==
    /\ Raised("UnboundLocalError")
    /\ existing_cols = schema_fields
    /\ markets # <<>>
    /\ last_refresh # NoTime

\* C19: the first series lookup follows the last listing page; while the
\* lookups run, each was issued for a series key of the listing and no key
\* was requested twice, failed or not; and when the enrichment phase is
\* left, the number of series requests issued in the refresh (the one in
\* progress included) is the number of distinct series keys of the
\* listing.
C19_OneLookupPerSeriesKey ==
    /\ [][/\ (pc # "enrich" /\ pc' = "enrich") =>
                /\ responses'[Len(responses')].cursor \in {None, ""}
                /\ all_markets' = Concat(responses', Len(responses'))
                /\ series_calls' = <<>>
          /\ (pc = "enrich" /\ pc' # "enrich") =>
                LET issued == IF pc' = "drop" THEN Len(series_calls)
                              ELSE Len(series_calls) + 1
                IN  issued = Cardinality(series_set(all_markets))]_vars
    /\ [](pc = "enrich" =>
             /\ \A i, j \in 1..Len(series_calls) :
                   series_calls[i] = series_calls[j] => i = j
             /\ \A i \in 1..Len(series_calls) :
                   series_calls[i] \in series_set(all_markets)
             /\ Len(series_calls) = count)

\* C20: the commit of a refresh leaves rows whose category is the category
\* the remote publishes for the row's own series key when the lookup of
\* that key succeeded and the document carried one, and the empty string
\* when the lookup failed or the document carried none; rows with the same
\* series key have the same category.
C20_CategoryOfOwnSeries ==
    [][(pc = "commit" /\ pc' = "return") =>
         /\ \A i \in 1..Len(markets') :
               LET key == SeriesKey(markets'[i].event_ticker)
                   succeeded == key \in DOMAIN series_to_category
               IN  markets'[i].category =
                      IF succeeded /\ RemoteCategory(key) # None
                      THEN RemoteCategory(key)
                      ELSE ""
         /\ \A i, j \in 1..Len(markets') :
               SeriesKey(markets'[i].event_ticker)
                  = SeriesKey(markets'[j].event_ticker)
                 => markets'[i].category = markets'[j].category]_vars

\* C20 witness: a refresh has committed rows of two series; both lookups
\* succeeded, the row of the series published with a category carries it
\* and the row of the series published without one carries the empty
\* string.
C20_Witness ==
    /\ pc = "return"
    /\ Len(markets) = 2
    /\ SeriesKey(markets[1].event_ticker) # SeriesKey(markets[2].event_ticker)
    /\ DOMAIN series_to_category = {<<"A">>, <<"B">>}
    /\ \E i \in 1..2 : markets[i].category = "Politics"
    /\ \E i \in 1..2 : markets[i].category = ""

====
